---- MODULE Spec2Model ----
(***************************************************************************)
(* Model of notebooks/processing_1.ipynb: the notebook that reads every    *)
(* .parquet file of the landing directory, standardizes its schema         *)
(* (five casts and one rename), folds the standardized tables into one     *)
(* DataFrame with unionByName, writes it in overwrite mode and stops the   *)
(* Spark session.                                                          *)
(*                                                                         *)
(* A run is "Run All": the code cells execute top to bottom and an         *)
(* exception raised in a cell ends the run (the cells after it are not     *)
(* executed).  The notebook has no try/except/finally anywhere.            *)
(*                                                                         *)
(* Numbers keep their real width.  TLC's own integers are 32 bit, so a     *)
(* 32-bit int and a 64-bit long are two's-complement bit strings (the set  *)
(* of the positions of their one bits) and a double is its sign, its       *)
(* 53-bit significand and its binary exponent.                             *)
(***************************************************************************)
EXTENDS Integers, Sequences, FiniteSets, Bags, TLC

\* ------------------------------------------------------------------ bounds
\* Largest number of entries of the landing directory in a merge run.
MaxFiles == 3
\* Largest number of rows of a file of the catalogue.
MaxRows == 2

\* ------------------------------------------------------- widths of the types
\* "int" of cast("int"): Spark IntegerType, 32-bit signed.
IntWidth == 32
\* "long" of the source files: Spark LongType, 64-bit signed.
LongWidth == 64
\* "double" of cast("double"): IEEE-754 binary64, 53 significant bits.
DoubleSignificand == 53

\* ------------------------------------------------------------ bit strings
\* A w-bit string is the set of the positions of its one bits, 1 (least
\* significant) to w; the width comes with the type of the value.

\* 2^k (k < w).
Pow2Bits(k) == {k + 1}

\* The bit string of a small natural number n < 2^30.
NatBits(n) == {i \in 1..30 : (n \div (2 ^ (i - 1))) % 2 = 1}

NotBits(b, w) == (1..w) \ b

\* b + 1 modulo 2^w.
Inc(b, w) ==
    LET zs == (1..w) \ b
    IN  IF zs = {} THEN {}
        ELSE LET k == CHOOSE i \in zs : \A j \in zs : i <= j
             IN  {i \in b : i > k} \cup {k}

\* b - 1 modulo 2^w.
Dec(b, w) == NotBits(Inc(NotBits(b, w), w), w)

\* Two's-complement negation.
Negate(b, w) == Inc(NotBits(b, w), w)

IsNegative(b, w) == w \in b

\* The magnitude |b| of a two's-complement string, as an unsigned string of
\* the same width (|-2^(w-1)| = 2^(w-1) fits unsigned).
Magnitude(b, w) == IF IsNegative(b, w) THEN Negate(b, w) ELSE b

\* Length of the unsigned number b in bits (0 for zero).
BitLen(b) == IF b = {} THEN 0 ELSE CHOOSE i \in b : \A j \in b : j <= i

\* The two's-complement string b of width `from`, widened to width `to`.
SignExtend(b, from, to) == IF from \in b THEN b \cup ((from + 1)..to) ELSE b

\* The unsigned string u * 2^e, w bits wide (bits shifted out are lost).
ShiftLeft(u, e, w) == {i + e : i \in u} \cap (1..w)

\* ------------------------------------------------------------------ values
\* A cell of a table: SQL NULL, an int, a long or a double.
Null == [t |-> "null"]
IntV(b) == [t |-> "int", b |-> b]
LongV(b) == [t |-> "long", b |-> b]
\* The double (-1)^neg * man * 2^exp, man an unsigned 53-bit string.
DoubleV(neg, man, exp) == [t |-> "double", neg |-> neg, man |-> man, exp |-> exp]

\* (double) x of a 64-bit long: the nearest double, ties to even.
LongToDouble(b) ==
    LET neg == IsNegative(b, LongWidth)
        mag == Magnitude(b, LongWidth)
        len == BitLen(mag)
        P == DoubleSignificand
    IN  IF len <= P THEN DoubleV(neg, mag, 0)
        ELSE LET s == len - P
                 kept == {i - s : i \in {j \in mag : j > s}}
                 guard == s \in mag
                 sticky == \E i \in mag : i < s
                 up == guard /\ (sticky \/ 1 \in kept)
             IN  IF ~up THEN DoubleV(neg, kept, s)
                 ELSE IF Inc(kept, P) = {} THEN DoubleV(neg, Pow2Bits(P - 1), s + 1)
                 ELSE DoubleV(neg, Inc(kept, P), s)

\* A narrowing to 16 bits (a cast to "short") widened back to 32.
LongToInt_short(b) == SignExtend(b \cap (1..16), 16, IntWidth)

\* (int) x of a 64-bit long: the low 32 bits.
LongToInt(b) == b \cap (1..IntWidth)

\* Column.cast(to) on one value, spark.sql.ansi.enabled = false (the default
\* of the Spark 3 line the notebook ran on): NULL stays NULL, long -> int
\* keeps the low 32 bits, int/long -> double rounds to the nearest double.
cast(v, to) ==
    IF v.t = "null" THEN Null
    ELSE IF v.t = to THEN v
    ELSE IF v.t = "long" /\ to = "int" THEN IntV(LongToInt(v.b))
    ELSE IF v.t = "long" /\ to = "double" THEN LongToDouble(v.b)
    ELSE IF v.t = "int" /\ to = "double"
         THEN LongToDouble(SignExtend(v.b, IntWidth, LongWidth))
    ELSE IF v.t = "int" /\ to = "long" THEN LongV(SignExtend(v.b, IntWidth, LongWidth))
    ELSE Null

\* An int or long cell as a 64-bit string.
Wide(v) == IF v.t = "int" THEN SignExtend(v.b, IntWidth, LongWidth) ELSE v.b

\* Whether two cells hold the same number (or are both NULL): integers are
\* compared as 64-bit numbers, a double with an integer by its exact value.
SameNumber(x, y) ==
    LET isInt(v) == v.t \in {"int", "long"}
        exact(d, v) == /\ d.exp >= 0
                       /\ BitLen(d.man) + d.exp <= LongWidth
                       /\ ShiftLeft(d.man, d.exp, LongWidth) = Magnitude(Wide(v), LongWidth)
                       /\ (d.neg <=> IsNegative(Wide(v), LongWidth))
    IN  IF x.t = "null" \/ y.t = "null" THEN x.t = y.t
        ELSE IF isInt(x) /\ isInt(y) THEN Wide(x) = Wide(y)
        ELSE IF x.t = "double" /\ isInt(y) THEN exact(x, y)
        ELSE IF isInt(x) /\ y.t = "double" THEN exact(y, x)
        ELSE x = y

\* ------------------------------------------------------------------ tables
\* A DataFrame: its columns in order (name and declared type) and its rows,
\* each row the cells in column order.
DataFrame(cols, rows) == [kind |-> "DataFrame", cols |-> cols, rows |-> rows]

\* Python's None, the initial value of the accumulator sdf.
None == [kind |-> "None"]

\* The exception pyspark raises when a plan does not analyze.
AnalysisException == [kind |-> "AnalysisException"]

IsDataFrame(x) == x.kind = "DataFrame"

\* The names the notebook and the files use.
Required == <<"VendorID", "passenger_count", "RatecodeID", "PULocationID", "DOLocationID">>

\* Lower-casing, on the column names of the model: the two spellings of the
\* airport fee are the only names that differ by case.
Lower(name) == IF name = "Airport_fee" THEN "airport_fee" ELSE name

\* The analyzer's resolver: spark.sql.caseSensitive is not set by the
\* session builder, so names are compared case-insensitively.
resolver(a, b) == Lower(a) = Lower(b)

\* The positions of the columns of df that a name resolves to.
Resolve(df, name) == {i \in 1..Len(df.cols) : resolver(df.cols[i].name, name)}

Names(df) == {df.cols[i].name : i \in 1..Len(df.cols)}

\* Whether two columns of df have names the resolver cannot tell apart.
HasDuplicateColumns(df) ==
    \E i, j \in 1..Len(df.cols) : i # j /\ resolver(df.cols[i].name, df.cols[j].name)

\* The row as a map from column name to cell (columns told apart by name).
RowMap(df, row) ==
    [n \in Names(df) |-> row[CHOOSE i \in 1..Len(df.cols) : df.cols[i].name = n]]

\* The multiset of the rows of df, each row as a map from name to cell.
RowBag(df) ==
    LET maps == [k \in 1..Len(df.rows) |-> RowMap(df, df.rows[k])]
    IN  [m \in {maps[k] : k \in 1..Len(df.rows)} |->
            Cardinality({k \in 1..Len(df.rows) : maps[k] = m})]

row_count(df) == Len(df.rows)

\* A cast that adds the cast column at the end instead of replacing the
\* column of that name.
withColumnCast_append(df, name, to) ==
    IF ~IsDataFrame(df) THEN df
    ELSE IF Cardinality(Resolve(df, name)) # 1 THEN AnalysisException
    ELSE LET p == CHOOSE i \in Resolve(df, name) : TRUE
         IN  DataFrame(
                 Append(df.cols, [name |-> name, type |-> to]),
                 [k \in 1..Len(df.rows) |-> Append(df.rows[k], cast(df.rows[k][p], to))])

\* A cast that skips a column the table does not have instead of raising.
withColumnCast_lenient(df, name, to) ==
    IF ~IsDataFrame(df) THEN df
    ELSE IF Cardinality(Resolve(df, name)) # 1 THEN df
    ELSE LET p == CHOOSE i \in Resolve(df, name) : TRUE
         IN  DataFrame(
                 [i \in 1..Len(df.cols) |->
                     IF i = p THEN [name |-> name, type |-> to] ELSE df.cols[i]],
                 [k \in 1..Len(df.rows) |->
                     [i \in 1..Len(df.cols) |->
                         IF i = p THEN cast(df.rows[k][i], to) ELSE df.rows[k][i]]])

\* df.withColumn(name, col(name).cast(to)).  col(name) must resolve to one
\* column of df, else the call raises AnalysisException (the DataFrame API
\* analyzes eagerly); the column it names is replaced in place, under the
\* name given, with every cell cast.
withColumnCast(df, name, to) ==
    IF ~IsDataFrame(df) THEN df
    ELSE IF Cardinality(Resolve(df, name)) # 1 THEN AnalysisException
    ELSE LET p == CHOOSE i \in Resolve(df, name) : TRUE
         IN  DataFrame(
                 [i \in 1..Len(df.cols) |->
                     IF i = p THEN [name |-> name, type |-> to] ELSE df.cols[i]],
                 [k \in 1..Len(df.rows) |->
                     [i \in 1..Len(df.cols) |->
                         IF i = p THEN cast(df.rows[k][i], to) ELSE df.rows[k][i]]])

\* A rename that forgets the rename: the table comes back as it went in.
withColumnRenamed_noop(df, existing, new) == df

\* df.withColumnRenamed(existing, new): every column the resolver matches
\* with `existing` gets the name `new`; a no-op when none matches.
withColumnRenamed(df, existing, new) ==
    IF ~IsDataFrame(df) THEN df
    ELSE DataFrame(
             [i \in 1..Len(df.cols) |->
                 IF resolver(df.cols[i].name, existing)
                 THEN [name |-> new, type |-> df.cols[i].type]
                 ELSE df.cols[i]],
             df.rows)

\* standardize_schema with VendorID cast to long instead of int.
standardize_schema_long(df) ==
    withColumnRenamed(
        withColumnCast(
            withColumnCast(
                withColumnCast(
                    withColumnCast(
                        withColumnCast(df, "VendorID", "long"),
                        "passenger_count", "double"),
                    "RatecodeID", "double"),
                "PULocationID", "int"),
            "DOLocationID", "int"),
        "Airport_fee", "airport_fee")

\* standardize_schema(df): the five casts in the order of the source, then
\* the rename.  An exception raised by one call ends the chain.
standardize_schema(df) ==
    withColumnRenamed(
        withColumnCast(
            withColumnCast(
                withColumnCast(
                    withColumnCast(
                        withColumnCast(df, "VendorID", "int"),
                        "passenger_count", "double"),
                    "RatecodeID", "double"),
                "PULocationID", "int"),
            "DOLocationID", "int"),
        "Airport_fee", "airport_fee")

\* The wider of two column types, as Spark's set-operation coercion picks it.
Wider(a, b) ==
    IF a = b THEN a
    ELSE IF "double" \in {a, b} THEN "double"
    ELSE "long"

\* Whether unionByName(left, right) analyzes: no side has two columns of the
\* same name, every column of left resolves in right, and right has no
\* column more (allowMissingColumns is left at False).
CanUnionByName(left, right) ==
    /\ ~HasDuplicateColumns(left)
    /\ ~HasDuplicateColumns(right)
    /\ \A i \in 1..Len(left.cols) : Resolve(right, left.cols[i].name) # {}
    /\ Len(left.cols) = Len(right.cols)

\* A union that drops the rows of right that left already holds (UNION
\* DISTINCT against left) instead of keeping them.
unionByName_distinct(left, right) ==
    IF ~CanUnionByName(left, right) THEN AnalysisException
    ELSE LET pos == [i \in 1..Len(left.cols) |->
                         CHOOSE j \in Resolve(right, left.cols[i].name) : TRUE]
             moved == [k \in 1..Len(right.rows) |->
                          [i \in 1..Len(left.cols) |-> right.rows[k][pos[i]]]]
             fresh == SelectSeq(moved, LAMBDA r : \A k \in 1..Len(left.rows) : left.rows[k] # r)
         IN  DataFrame(left.cols, left.rows \o fresh)

\* A union that aligns the columns by position, as DataFrame.union does.
unionByName_position(left, right) ==
    IF ~CanUnionByName(left, right) THEN AnalysisException
    ELSE DataFrame(left.cols, left.rows \o right.rows)

\* left.unionByName(right): the columns of left, in left's order and under
\* left's names, each of the wider type of the two sides; the rows of left
\* followed by the rows of right, each cell of right moved to the position
\* of the column of left that has its name.  No row is dropped.
unionByName(left, right) ==
    IF ~CanUnionByName(left, right) THEN AnalysisException
    ELSE LET pos == [i \in 1..Len(left.cols) |->
                         CHOOSE j \in Resolve(right, left.cols[i].name) : TRUE]
             ty == [i \in 1..Len(left.cols) |->
                        Wider(left.cols[i].type, right.cols[pos[i]].type)]
         IN  DataFrame(
                 [i \in 1..Len(left.cols) |-> [name |-> left.cols[i].name, type |-> ty[i]]],
                 [k \in 1..Len(left.rows) |->
                     [i \in 1..Len(left.cols) |-> cast(left.rows[k][i], ty[i])]]
                 \o
                 [k \in 1..Len(right.rows) |->
                     [i \in 1..Len(left.cols) |-> cast(right.rows[k][pos[i]], ty[i])]])

\* spark.read.parquet(file) when the file can be read: the table of the file.
\* A file whose schema has two columns the resolver cannot tell apart is
\* refused with AnalysisException (duplicate column in the data schema).
read_parquet(file) ==
    IF HasDuplicateColumns(file.table) THEN AnalysisException ELSE file.table

\* ------------------------------------------------- the files of the model
\* The layout of a file: the type of the three id columns (int or long), of
\* passenger_count and RatecodeID (long or double), the spelling of the
\* airport fee ("Airport_fee", "airport_fee", "both" or "none"), whether the
\* columns come in the reverse order, and the required column it lacks.
Layout(intTy, fltTy, fee, reversed, missing) ==
    [intTy |-> intTy, fltTy |-> fltTy, fee |-> fee, reversed |-> reversed, missing |-> missing]

Reverse(s) == [i \in 1..Len(s) |-> s[Len(s) + 1 - i]]

Col(name, type) == [name |-> name, type |-> type]

\* The columns of a file of layout l, in the order the files list them.
ColsOf(l) ==
    LET base == << Col("VendorID", l.intTy), Col("passenger_count", l.fltTy),
                   Col("RatecodeID", l.fltTy), Col("PULocationID", l.intTy),
                   Col("DOLocationID", l.intTy), Col("payment_type", "long") >>
        fee == IF l.fee = "none" THEN << >>
               ELSE IF l.fee = "both"
                    THEN << Col("Airport_fee", "double"), Col("airport_fee", "double") >>
               ELSE << Col(l.fee, "double") >>
        kept == SelectSeq(base \o fee, LAMBDA c : c.name # l.missing)
    IN  IF l.reversed THEN Reverse(kept) ELSE kept

\* A small natural number as a cell of the given type.
NumberV(num, ty) ==
    IF ty = "int" THEN IntV(NatBits(num))
    ELSE IF ty = "long" THEN LongV(NatBits(num))
    ELSE LongToDouble(NatBits(num))

MinusOne(ty) ==
    IF ty = "int" THEN IntV(1..IntWidth)
    ELSE IF ty = "long" THEN LongV(1..LongWidth)
    ELSE DoubleV(TRUE, NatBits(1), 0)

\* The rows of the model, by case.  Cases 1..3 are trips as the files hold
\* them (a different number under every column); cases 4..9 put the same
\* edge value under every id column and under every count column:
\*   4  NULL everywhere
\*   5  -1
\*   6  id 2^31 - 1;              count 2^53 (long), 1.5 (double)
\*   7  id 2^31 (long), -2^31 (int);      count 2^53 + 1 (long), 2^53 (double)
\*   8  id 2^32 + 1 (long), 0 (int);      count 2^63 - 1 (long), 0.0 (double)
\*   9  id -2^31 - 1 (long), -2^31 (int); count -2^63 (long), -1.5 (double)
TypicalCases == {1, 2, 3}
EdgeCases == {4, 5, 6, 7, 8, 9}

Typical(name, k) ==
    CASE name = "VendorID" -> <<1, 2, 1>>[k]
      [] name = "passenger_count" -> <<1, 3, 6>>[k]
      [] name = "RatecodeID" -> <<5, 4, 99>>[k]
      [] name = "PULocationID" -> <<132, 138, 265>>[k]
      [] name = "DOLocationID" -> <<7, 48, 264>>[k]
      [] name = "payment_type" -> <<0, 9, 8>>[k]

IdEdge(k, ty) ==
    LET w == IF ty = "int" THEN IntWidth ELSE LongWidth
        mk(b) == IF ty = "int" THEN IntV(b) ELSE LongV(b)
        intMax == 1..(IntWidth - 1)
        intMin == SignExtend(Pow2Bits(IntWidth - 1), IntWidth, w)
    IN  CASE k = 5 -> MinusOne(ty)
          [] k = 6 -> mk(intMax)
          [] k = 7 -> IF ty = "int" THEN mk(intMin) ELSE mk(Pow2Bits(IntWidth - 1))
          [] k = 8 -> IF ty = "int" THEN mk({}) ELSE mk(Inc(Pow2Bits(IntWidth), w))
          [] k = 9 -> IF ty = "int" THEN mk(intMin) ELSE mk(Dec(intMin, w))

CountEdge(k, ty) ==
    LET P == DoubleSignificand
        w == LongWidth
    IN  CASE k = 5 -> MinusOne(ty)
          [] k = 6 -> IF ty = "long" THEN LongV(Pow2Bits(P))
                      ELSE DoubleV(FALSE, NatBits(3), -1)
          [] k = 7 -> IF ty = "long" THEN LongV(Inc(Pow2Bits(P), w))
                      ELSE DoubleV(FALSE, Pow2Bits(P - 1), 1)
          [] k = 8 -> IF ty = "long" THEN LongV(Dec(Pow2Bits(w - 1), w))
                      ELSE DoubleV(FALSE, {}, 0)
          [] k = 9 -> IF ty = "long" THEN LongV(Pow2Bits(w - 1))
                      ELSE DoubleV(TRUE, NatBits(3), -1)

\* The airport fee of row k: k quarters of a dollar.
FeeV(k) == IF k = 4 THEN Null ELSE DoubleV(FALSE, NatBits(k), -2)

\* The cell of row case k under a column.
CellOf(k, c) ==
    IF Lower(c.name) = "airport_fee" THEN FeeV(k)
    ELSE IF k = 4 THEN Null
    ELSE IF k \in TypicalCases \/ c.name = "payment_type" THEN
        NumberV(IF k \in TypicalCases THEN Typical(c.name, k) ELSE k, c.type)
    ELSE IF c.name \in {"passenger_count", "RatecodeID"} THEN CountEdge(k, c.type)
    ELSE IdEdge(k, c.type)

RowOf(l, k) == [i \in 1..Len(ColsOf(l)) |-> CellOf(k, ColsOf(l)[i])]

\* The table of layout l whose rows are the given cases.
TableOf(l, ks) == DataFrame(ColsOf(l), [j \in 1..Len(ks) |-> RowOf(l, ks[j])])

\* An entry of the landing directory: the end of its name and, for a
\* Parquet file, its table.
ParquetFile(table) == [ext |-> ".parquet", table |-> table]
OtherFile == [ext |-> ".crc", table |-> None]

\* The two layouts the notebook's output shows (2022-11..2023-01 and
\* 2023-02..2023-04), the second with its columns in the reverse order.
Layout2022 == Layout("long", "double", "airport_fee", FALSE, "none")
Layout2023 == Layout("int", "long", "Airport_fee", TRUE, "none")

\* The trips 1, 2, 3, 1, ... as the rows of a file.
Trips(m) == [j \in 1..m |-> ((j - 1) % 3) + 1]

\* The files of a merge run: the 2022 layout empty and with MaxRows rows,
\* the 2023 layout with one row and with MaxRows rows.
Catalogue ==
    {ParquetFile(TableOf(Layout2022, Trips(m))) : m \in {0, MaxRows}}
    \cup {ParquetFile(TableOf(Layout2023, Trips(m))) : m \in {1, MaxRows}}

\* Every layout a file of a schema run can have: the eight combinations of
\* types and spelling, a reversed one, one without each required column, one
\* without the airport fee and one with both spellings.
Layouts ==
    {Layout(i, f, a, FALSE, "none") :
        i \in {"int", "long"}, f \in {"long", "double"}, a \in {"Airport_fee", "airport_fee"}}
    \cup {Layout2023}
    \cup {Layout("long", "double", "airport_fee", FALSE, Required[m]) : m \in 1..Len(Required)}
    \cup {Layout("int", "long", "none", FALSE, "none"),
          Layout("int", "long", "both", FALSE, "none")}

\* The files of a schema run: every layout, empty or with one row of any case.
SchemaFiles ==
    {ParquetFile(TableOf(l, ks)) :
        l \in Layouts, ks \in {<< >>} \cup {<<k>> : k \in TypicalCases \cup EdgeCases}}

RECURSIVE SeqsUpTo(_, _)
SeqsUpTo(S, n) ==
    IF n = 0 THEN {<< >>}
    ELSE LET shorter == SeqsUpTo(S, n - 1)
         IN  shorter \cup {Append(s, x) : s \in {t \in shorter : Len(t) = n - 1}, x \in S}

\* The landing directories of the model: up to MaxFiles files of the
\* catalogue (merge runs); one file of any layout, alone or followed by a
\* file of the catalogue or by a file that is no Parquet file (schema runs).
LandingDirs ==
    SeqsUpTo(Catalogue, MaxFiles)
    \cup {<<f>> : f \in SchemaFiles}
    \cup {<<f, g>> : f \in SchemaFiles,
                     g \in {ParquetFile(TableOf(Layout2022, <<1>>)), OtherFile}}
    \cup {<<OtherFile>>}

\* ------------------------------------------------------------------- state
VARIABLES
    pc,               \* the statement the run is at; "done" and "failed" end it
    spark,            \* the session: "none", "active" or "stopped"
    landing,          \* the entries of data_path, in os.listdir order
    parquet_files,    \* the list of paths (positions in landing)
    n,                \* how many files the running for loop has taken
    df,               \* the DataFrame read last
    standardized_df,  \* the result of standardize_schema on it
    sdf,              \* the accumulator
    raw,              \* what the destination directory holds
    raw0,             \* what it held when the run started (never assigned)
    reads,            \* how often each entry of landing was read
    error             \* the exception that ended the run and the call that raised it

vars == <<pc, spark, landing, parquet_files, n, df, standardized_df, sdf, raw, raw0, reads, error>>

\* What the destination can hold before the run: nothing, or the output of
\* an earlier run.
Absent == [kind |-> "Absent"]
PriorRaw == {Absent, standardize_schema(TableOf(Layout2022, <<3>>))}

\* A listing that is off by one: the first Parquet file of the directory is
\* left out.
list_parquet_tail(dir) ==
    LET all == SelectSeq([i \in 1..Len(dir) |-> i], LAMBDA i : dir[i].ext = ".parquet")
    IN  IF all = << >> THEN all ELSE Tail(all)

\* [os.path.join(data_path, f) for f in os.listdir(data_path) if f.endswith('.parquet')]
list_parquet(dir) == SelectSeq([i \in 1..Len(dir) |-> i], LAMBDA i : dir[i].ext = ".parquet")

\* A write in append mode: the rows already there stay.
write_parquet_append(old, new) ==
    IF old = Absent THEN new ELSE DataFrame(new.cols, old.rows \o new.rows)

\* sdf.write.parquet(path, mode='overwrite'): what the destination holds
\* after a write that succeeded.
write_parquet(old, new) == new

NoError == [exception |-> "", at |-> "", call |-> ""]

\* An exception ends the run: no later statement executes.  The traceback
\* names the statement (at) and the call that raised.
Raise(e, call) == pc' = "failed" /\ error' = [exception |-> e, at |-> pc, call |-> call]

Init ==
    /\ pc = "session"
    /\ spark = "none"
    /\ landing \in LandingDirs
    /\ parquet_files = << >>
    /\ n = 0
    /\ df = None
    /\ standardized_df = None
    /\ sdf = None
    /\ raw \in PriorRaw
    /\ raw0 = raw
    /\ reads = [i \in 1..Len(landing) |-> 0]
    /\ error = NoError

\* The file the running loop takes next.
file == parquet_files[n + 1]

\* spark = SparkSession.builder...getOrCreate()
CreateSession ==
    /\ pc = "session"
    /\ spark' = "active"
    /\ pc' = "list"
    /\ UNCHANGED <<landing, parquet_files, n, df, standardized_df, sdf, raw, raw0, reads, error>>

\* parquet_files = [...] of the schema inspection cell
ListFiles ==
    /\ pc = "list"
    /\ parquet_files' = list_parquet(landing)
    /\ n' = 0
    /\ pc' = IF parquet_files' = << >> THEN "relist" ELSE "inspect"
    /\ UNCHANGED <<spark, landing, df, standardized_df, sdf, raw, raw0, reads, error>>

\* One pass of the inspection loop: read the file, print its schema.
Inspect ==
    /\ pc = "inspect"
    /\ IsDataFrame(read_parquet(landing[file]))
    /\ df' = read_parquet(landing[file])
    /\ reads' = [reads EXCEPT ![file] = @ + 1]
    /\ n' = n + 1
    /\ pc' = IF n' = Len(parquet_files) THEN "relist" ELSE "inspect"
    /\ UNCHANGED <<spark, landing, parquet_files, standardized_df, sdf, raw, raw0, error>>

\* spark.read.parquet raises in the inspection loop: the schema of the file
\* does not analyze.
InspectRefused ==
    /\ pc = "inspect"
    /\ ~IsDataFrame(read_parquet(landing[file]))
    /\ reads' = [reads EXCEPT ![file] = @ + 1]
    /\ Raise("AnalysisException", "spark.read.parquet")
    /\ UNCHANGED <<spark, landing, parquet_files, n, df, standardized_df, sdf, raw, raw0>>

\* spark.read.parquet raises in the inspection loop: the file cannot be read.
InspectIOError ==
    /\ pc = "inspect"
    /\ reads' = [reads EXCEPT ![file] = @ + 1]
    /\ Raise("IOError", "spark.read.parquet")
    /\ UNCHANGED <<spark, landing, parquet_files, n, df, standardized_df, sdf, raw, raw0>>

\* The accumulator initialized to an empty DataFrame instead of None.
Relist_emptyframe ==
    /\ pc = "relist"
    /\ parquet_files' = list_parquet(landing)
    /\ sdf' = DataFrame(<< >>, << >>)
    /\ n' = 0
    /\ pc' = IF parquet_files' = << >> THEN "printSchema" ELSE "loop"
    /\ UNCHANGED <<spark, landing, df, standardized_df, raw, raw0, reads, error>>

\* parquet_files = [...]; sdf = None
Relist ==
    /\ pc = "relist"
    /\ parquet_files' = list_parquet(landing)
    /\ sdf' = None
    /\ n' = 0
    /\ pc' = IF parquet_files' = << >> THEN "printSchema" ELSE "loop"
    /\ UNCHANGED <<spark, landing, df, standardized_df, raw, raw0, reads, error>>

\* A fold that forgets the union: sdf = standardized_df in both branches.
Fold_replace(acc, t) == t

\* The accumulator after one more standardized table.
Fold(acc, t) == IF acc = None THEN t ELSE unionByName(acc, t)

\* One pass of the accumulation loop in which nothing raises.
Accumulate ==
    /\ pc = "loop"
    /\ IsDataFrame(read_parquet(landing[file]))
    /\ IsDataFrame(standardize_schema(read_parquet(landing[file])))
    /\ IsDataFrame(Fold(sdf, standardize_schema(read_parquet(landing[file]))))
    /\ df' = read_parquet(landing[file])
    /\ standardized_df' = standardize_schema(df')
    /\ sdf' = Fold(sdf, standardized_df')
    /\ reads' = [reads EXCEPT ![file] = @ + 1]
    /\ n' = n + 1
    /\ pc' = IF n' = Len(parquet_files) THEN "printSchema" ELSE "loop"
    /\ UNCHANGED <<spark, landing, parquet_files, raw, raw0, error>>

\* spark.read.parquet raises in the accumulation loop: the file cannot be read.
AccumulateIOError ==
    /\ pc = "loop"
    /\ reads' = [reads EXCEPT ![file] = @ + 1]
    /\ Raise("IOError", "spark.read.parquet")
    /\ UNCHANGED <<spark, landing, parquet_files, n, df, standardized_df, sdf, raw, raw0>>

\* standardize_schema raises: a column it casts is not in the table.
AccumulateSchemaError ==
    /\ pc = "loop"
    /\ IsDataFrame(read_parquet(landing[file]))
    /\ ~IsDataFrame(standardize_schema(read_parquet(landing[file])))
    /\ df' = read_parquet(landing[file])
    /\ reads' = [reads EXCEPT ![file] = @ + 1]
    /\ Raise("AnalysisException", "standardize_schema")
    /\ UNCHANGED <<spark, landing, parquet_files, n, standardized_df, sdf, raw, raw0>>

\* unionByName raises: the two sides do not have the same columns.
AccumulateUnionError ==
    /\ pc = "loop"
    /\ IsDataFrame(read_parquet(landing[file]))
    /\ IsDataFrame(standardize_schema(read_parquet(landing[file])))
    /\ ~IsDataFrame(Fold(sdf, standardize_schema(read_parquet(landing[file]))))
    /\ df' = read_parquet(landing[file])
    /\ standardized_df' = standardize_schema(df')
    /\ reads' = [reads EXCEPT ![file] = @ + 1]
    /\ Raise("AnalysisException", "unionByName")
    /\ UNCHANGED <<spark, landing, parquet_files, n, sdf, raw, raw0>>

\* sdf.printSchema()
PrintSchema ==
    /\ pc = "printSchema"
    /\ sdf # None
    /\ pc' = "shape"
    /\ UNCHANGED <<spark, landing, parquet_files, n, df, standardized_df, sdf, raw, raw0, reads, error>>

\* sdf.printSchema() on None: 'NoneType' object has no attribute 'printSchema'
PrintSchemaOfNone ==
    /\ pc = "printSchema"
    /\ sdf = None
    /\ Raise("AttributeError", "printSchema")
    /\ UNCHANGED <<spark, landing, parquet_files, n, df, standardized_df, sdf, raw, raw0, reads>>

\* shape(sdf): sdf.count() runs the plan and prints the row count.
Shape ==
    /\ pc = "shape"
    /\ pc' = "write"
    /\ UNCHANGED <<spark, landing, parquet_files, n, df, standardized_df, sdf, raw, raw0, reads, error>>

\* shape(sdf): the job of sdf.count() fails (a file cannot be read).
ShapeIOError ==
    /\ pc = "shape"
    /\ Raise("IOError", "count")
    /\ UNCHANGED <<spark, landing, parquet_files, n, df, standardized_df, sdf, raw, raw0, reads>>

\* sdf.write.parquet(..., mode='overwrite')
Write ==
    /\ pc = "write"
    /\ raw' = write_parquet(raw, sdf)
    /\ pc' = "stop"
    /\ UNCHANGED <<spark, landing, parquet_files, n, df, standardized_df, sdf, raw0, reads, error>>

\* The write job fails: the destination is as it was (the job failed before
\* the old files were deleted) or empty (it failed after).
WriteIOError ==
    /\ pc = "write"
    /\ raw' \in {raw, Absent}
    /\ Raise("IOError", "write.parquet")
    /\ UNCHANGED <<spark, landing, parquet_files, n, df, standardized_df, sdf, raw0, reads>>

\* spark.stop()
Stop ==
    /\ pc = "stop"
    /\ spark' = "stopped"
    /\ pc' = "done"
    /\ UNCHANGED <<landing, parquet_files, n, df, standardized_df, sdf, raw, raw0, reads, error>>

Next ==
    \/ CreateSession
    \/ ListFiles
    \/ Inspect
    \/ InspectRefused
    \/ InspectIOError
    \/ Relist
    \/ Accumulate
    \/ AccumulateIOError
    \/ AccumulateSchemaError
    \/ AccumulateUnionError
    \/ PrintSchema
    \/ PrintSchemaOfNone
    \/ Shape
    \/ ShapeIOError
    \/ Write
    \/ WriteIOError
    \/ Stop

Spec == Init /\ [][Next]_vars

\* ------------------------------------------------------- helpers of the claims
\* The standardized table of the j-th listed file.
Normalized(j) == standardize_schema(read_parquet(landing[parquet_files[j]]))

\* The declared type of the column of df of that exact name ("" if none).
TypeOf(df_, name) ==
    LET ps == {i \in 1..Len(df_.cols) : df_.cols[i].name = name}
    IN  IF ps = {} THEN "" ELSE df_.cols[CHOOSE i \in ps : TRUE].type

\* How many columns of df have exactly that name.
CountNamed(df_, name) == Cardinality({i \in 1..Len(df_.cols) : df_.cols[i].name = name})

\* standardized_df is the table standardize_schema returned for df: the
\* accumulation loop has standardized the table it read last.
Standardized ==
    /\ IsDataFrame(df)
    /\ IsDataFrame(standardized_df)
    /\ error.call # "standardize_schema"

RECURSIVE SumRows(_)
\* The rows of the first j standardized tables, counted.
SumRows(j) == IF j = 0 THEN 0 ELSE SumRows(j - 1) + row_count(Normalized(j))

\* The accumulation loop has folded the first n files into sdf.
Folded == IsDataFrame(sdf) /\ n >= 1

\* --------------------------------------------------------------------- C1
\* C1: the session created at the start of the run is stopped at the end of
\* the run on every exit path: whenever the run has ended, normally or by an
\* exception in a read, in standardize_schema, in unionByName, in printSchema
\* or in the write, spark.stop() has been called.
C1_SessionStoppedOnEveryExit ==
    pc \in {"done", "failed"} => spark = "stopped"

\* --------------------------------------------------------------------- C2
\* C2: row-count law.  Whenever the loop has folded the first n >= 1
\* standardized tables into sdf, sdf has exactly as many rows as those
\* tables have together: none is lost, none is dropped as a duplicate.
C2_RowCountLaw ==
    Folded => row_count(sdf) = SumRows(n)

\* C2's case: three files folded, one of them empty, and a row that two of
\* them share is in sdf more than once.
C2_Witness ==
    /\ pc = "printSchema"
    /\ n = 3
    /\ \E j \in 1..n : row_count(Normalized(j)) = 0
    /\ \E m \in DOMAIN RowBag(sdf) : RowBag(sdf)[m] >= 2
    /\ row_count(sdf) = SumRows(n)

\* --------------------------------------------------------------------- C3
\* C3: whatever the types of the input, the table standardize_schema returns
\* declares VendorID, PULocationID and DOLocationID as int and
\* passenger_count and RatecodeID as double.
C3_StandardTypes ==
    IsDataFrame(standardized_df) =>
        /\ TypeOf(standardized_df, "VendorID") = "int"
        /\ TypeOf(standardized_df, "PULocationID") = "int"
        /\ TypeOf(standardized_df, "DOLocationID") = "int"
        /\ TypeOf(standardized_df, "passenger_count") = "double"
        /\ TypeOf(standardized_df, "RatecodeID") = "double"

\* C3's case: the input had the ids as long and the counts as long, and
\* standardize_schema returned a table for it.
C3_Witness ==
    /\ Standardized
    /\ standardized_df = standardize_schema(df)
    /\ TypeOf(df, "VendorID") = "long"
    /\ TypeOf(df, "DOLocationID") = "long"
    /\ TypeOf(df, "passenger_count") = "long"
    /\ TypeOf(standardized_df, "VendorID") = "int"
    /\ TypeOf(standardized_df, "passenger_count") = "double"

\* --------------------------------------------------------------------- C4
\* C4: when the input has the airport fee under either spelling, the table
\* standardize_schema returns has exactly one column named airport_fee and
\* none named Airport_fee.
C4_OneAirportFee ==
    (Standardized /\ Resolve(df, "airport_fee") # {}) =>
        /\ CountNamed(standardized_df, "airport_fee") = 1
        /\ CountNamed(standardized_df, "Airport_fee") = 0

\* C4's case: the input spelled the column Airport_fee and the table
\* returned spells it airport_fee.
C4_Witness ==
    /\ Standardized
    /\ CountNamed(df, "Airport_fee") = 1
    /\ CountNamed(standardized_df, "airport_fee") = 1
    /\ CountNamed(standardized_df, "Airport_fee") = 0

\* --------------------------------------------------------------------- C5
IdColumns == {"VendorID", "PULocationID", "DOLocationID"}
CountColumns == {"passenger_count", "RatecodeID"}

\* The cell of row k of df under the column of that exact name.
ValueAt(df_, k, name) ==
    df_.rows[k][CHOOSE i \in 1..Len(df_.cols) : df_.cols[i].name = name]

\* -2^31 <= v < 2^31 (a NULL and an int always are).
InIntRange(v) ==
    v.t = "long" => \A i \in IntWidth..LongWidth : (i \in v.b) <=> (LongWidth \in v.b)

\* |v| <= 2^53 (a NULL and a double always are).
WithinDoublePrecision(v) ==
    v.t = "long" =>
        \/ BitLen(Magnitude(v.b, LongWidth)) <= DoubleSignificand
        \/ Magnitude(v.b, LongWidth) = Pow2Bits(DoubleSignificand)

\* C5 as the spec states it: every cast of standardize_schema preserves the
\* value: every cell of the five cast columns of the standardized table holds
\* the number the input held, whatever the source type.
C5_CastsPreserveEveryValue ==
    Standardized =>
        \A k \in 1..Len(df.rows) : \A name \in IdColumns \cup CountColumns :
            SameNumber(ValueAt(standardized_df, k, name), ValueAt(df, k, name))

\* C5, amended: the casts preserve every value that the target type can
\* hold: an id in the signed 32-bit range, a count that is a double already or
\* an integer of magnitude at most 2^53.
C5_CastsPreserveValuesInRange ==
    Standardized =>
        \A k \in 1..Len(df.rows) :
            /\ \A name \in IdColumns :
                   InIntRange(ValueAt(df, k, name)) =>
                       SameNumber(ValueAt(standardized_df, k, name), ValueAt(df, k, name))
            /\ \A name \in CountColumns :
                   WithinDoublePrecision(ValueAt(df, k, name)) =>
                       SameNumber(ValueAt(standardized_df, k, name), ValueAt(df, k, name))

\* C5's case: a long VendorID of 2^31 - 1 and a long passenger_count of 2^53,
\* the largest values the amended claim covers, were cast and kept.
C5_Witness ==
    /\ Standardized
    /\ \E k \in 1..Len(df.rows) :
           /\ ValueAt(df, k, "VendorID") = LongV(1..(IntWidth - 1))
           /\ ValueAt(standardized_df, k, "VendorID") = IntV(1..(IntWidth - 1))
           /\ ValueAt(df, k, "passenger_count") = LongV(Pow2Bits(DoubleSignificand))
           /\ ValueAt(standardized_df, k, "passenger_count").t = "double"

\* --------------------------------------------------------------------- C6
\* C6: standardize_schema is idempotent: applied to the table it returned,
\* it returns that table again: same columns, same types, same rows.
C6_Idempotent ==
    Standardized => standardize_schema(standardized_df) = standardized_df

\* C6's case: the first application changed the table (names, types and
\* cells) and the second changes nothing.
C6_Witness ==
    /\ Standardized
    /\ standardized_df = standardize_schema(df)
    /\ standardized_df.cols # df.cols
    /\ standardized_df.rows # df.rows
    /\ CountNamed(df, "Airport_fee") = 1
    /\ standardize_schema(standardized_df) = standardized_df

\* --------------------------------------------------------------------- C7
\* The standardized tables of the files folded so far.
NormalizedTables == [j \in 1..n |-> Normalized(j)]

\* a.unionByName(b) and Fold(a, b), on tables that are computed once.
Merge(a, b) == CHOOSE u \in {unionByName(x, y) : x \in {a}, y \in {b}} : TRUE
FoldOne(a, b) == CHOOSE u \in {Fold(x, y) : x \in {a}, y \in {b}} : TRUE

\* Whether two tables hold the same multiset of rows.
SameRows(a, b) == \E x \in {a}, y \in {b} : RowBag(x) = RowBag(y)

RECURSIVE FoldInOrder(_, _, _)
\* The accumulator after the tables T[p[1]], ..., T[p[j]], folded in that order.
FoldInOrder(T, p, j) ==
    IF j = 0 THEN None ELSE FoldOne(FoldInOrder(T, p, j - 1), T[p[j]])

\* C7: merge is commutative and associative on the content: when the loop
\* has folded every listed file, for the standardized tables A, B, C of any
\* of the files, A+B and B+A hold the same multiset of rows, (A+B)+C and
\* A+(B+C) do too, and folding the files in any other order gives the
\* multiset of rows sdf holds.
C7_MergeCommutesAndAssociates ==
    (Folded /\ pc = "printSchema") =>
        \A T \in {NormalizedTables} :
            \A M \in {[i \in 1..n, j \in 1..n |-> Merge(T[i], T[j])]} :
                /\ \A i, j \in 1..n : SameRows(M[i, j], M[j, i])
                /\ \A i, j, k \in 1..n :
                       SameRows(Merge(M[i, j], T[k]), Merge(T[i], M[j, k]))
                /\ \A p \in Permutations(1..n) : SameRows(FoldInOrder(T, p, n), sdf)

\* C7's case: three files with rows were folded, two of them with their
\* columns in different orders and with different rows.
C7_Witness ==
    /\ pc = "printSchema"
    /\ n = 3
    /\ \A j \in 1..n : row_count(Normalized(j)) >= 1
    /\ \E i, j \in 1..n :
           /\ Normalized(i).cols # Normalized(j).cols
           /\ RowBag(Normalized(i)) # RowBag(Normalized(j))
    /\ \A p \in Permutations(1..n) : SameRows(FoldInOrder(NormalizedTables, p, n), sdf)

\* --------------------------------------------------------------------- C8
\* Whether a table lacks a column that a cast of standardize_schema names.
LacksRequired(t) == \E m \in 1..Len(Required) : Resolve(t, Required[m]) = {}

\* C8: when the table read lacks a column that a cast names,
\* standardize_schema raises instead of returning a table, the pass of the
\* loop that read it ends the run, the accumulator and the destination stay
\* as they were, and nothing runs after the failure; a table that lacks
\* nothing but Airport_fee is standardized without error.
C8_MissingColumnAbortsRun ==
    /\ [][(/\ pc = "loop"
           /\ IsDataFrame(read_parquet(landing[file]))
           /\ LacksRequired(read_parquet(landing[file])))
          => (/\ standardize_schema(read_parquet(landing[file])) = AnalysisException
              /\ pc' = "failed"
              /\ \/ error'.call = "standardize_schema"
                 \/ error'.exception = "IOError"
              /\ sdf' = sdf
              /\ raw' = raw0)]_vars
    /\ [][pc = "failed" => (pc' = "failed" /\ raw' = raw)]_vars
    /\ [](pc = "loop" /\ IsDataFrame(read_parquet(landing[file]))
             /\ ~LacksRequired(read_parquet(landing[file]))
          => IsDataFrame(standardize_schema(read_parquet(landing[file]))))

\* C8's case: the run has ended in standardize_schema on a table without
\* VendorID, and the destination still holds the output of an earlier run.
C8_Witness ==
    /\ pc = "failed"
    /\ error.call = "standardize_schema"
    /\ Resolve(df, "VendorID") = {}
    /\ IsDataFrame(raw0)
    /\ raw = raw0

\* --------------------------------------------------------------------- C9
\* C9: the write is in overwrite mode: once the write has succeeded, the
\* destination holds the columns and the rows of sdf and nothing else,
\* whatever it held before.
C9_WriteOverwrites ==
    pc \in {"stop", "done"} =>
        /\ IsDataFrame(raw)
        /\ raw.cols = sdf.cols
        /\ raw.rows = sdf.rows

\* C9's case: the destination held rows before the run, the run is done and
\* the destination holds the rows of sdf, which are other rows.
C9_Witness ==
    /\ pc = "done"
    /\ IsDataFrame(raw0)
    /\ row_count(raw0) >= 1
    /\ row_count(sdf) >= 1
    /\ raw = sdf
    /\ RowBag(raw) # RowBag(raw0)

\* -------------------------------------------------------------------- C10
\* The rows of df in order, each as a map from column name to cell.
RowMaps(df_) == [k \in 1..Len(df_.rows) |-> RowMap(df_, df_.rows[k])]

RECURSIVE SourceRowMaps(_)
\* The rows of the first j standardized tables, each as its own table maps
\* names to cells, in the order the loop folded them.
SourceRowMaps(j) ==
    IF j = 0 THEN << >> ELSE SourceRowMaps(j - 1) \o RowMaps(Normalized(j))

\* C10: the merge aligns columns by name: every row of sdf holds, under
\* each column name, the cell its source table held under that name,
\* whatever the order of the columns of the source.
C10_AlignedByName ==
    Folded => RowMaps(sdf) = SourceRowMaps(n)

\* C10's case: two folded tables have the same column names in different
\* orders, and each has a row.
C10_Witness ==
    /\ Folded
    /\ \E i, j \in 1..n :
           /\ Names(Normalized(i)) = Names(Normalized(j))
           /\ Normalized(i).cols # Normalized(j).cols
           /\ row_count(Normalized(i)) >= 1
           /\ row_count(Normalized(j)) >= 1
    /\ RowMaps(sdf) = SourceRowMaps(n)

\* -------------------------------------------------------------------- C11
\* The entries of the landing directory that are Parquet files.
InputFiles == {i \in 1..Len(landing) : landing[i].ext = ".parquet"}

\* C11 as stated: each source table is read once.  When the run is complete,
\* every Parquet file of the landing directory has been read into a table
\* exactly once.
C11_EachFileReadOnce ==
    pc = "done" => \A i \in InputFiles : reads[i] = 1

\* C11 as amended: each loop reads each file once, and the run has two
\* loops.  The inspection loop has read each of the first n listed files
\* once and no other; the accumulation loop has read each of its first n
\* files a second time; when the run is complete every Parquet file has been
\* read exactly twice; an entry that is no Parquet file is never read; and df
\* holds no table but that of the file the accumulation loop read last.
C11_EachFileReadOncePerLoop ==
    /\ \A i \in 1..Len(landing) : i \notin InputFiles => reads[i] = 0
    /\ pc = "inspect" =>
           \A j \in 1..Len(parquet_files) :
               reads[parquet_files[j]] = IF j <= n THEN 1 ELSE 0
    /\ pc = "loop" =>
           /\ \A j \in 1..Len(parquet_files) :
                  reads[parquet_files[j]] = IF j <= n THEN 2 ELSE 1
           /\ n >= 1 => df = read_parquet(landing[parquet_files[n]])
    /\ pc \in {"printSchema", "shape", "write", "stop", "done"} =>
           /\ \A i \in InputFiles : reads[i] = 2
           /\ n >= 1 => df = read_parquet(landing[parquet_files[n]])

\* C11's case: a complete run over a directory of at least two Parquet
\* files, each read by both loops.
C11_Witness ==
    /\ pc = "done"
    /\ Cardinality(InputFiles) >= 2
    /\ \A i \in InputFiles : reads[i] = 2

\* -------------------------------------------------------------------- C12
\* The run is in the accumulation loop or past it (or an exception ended it
\* there).
InFold ==
    \/ pc \in {"loop", "printSchema", "shape", "write", "stop", "done"}
    \/ pc = "failed" /\ error.at \in {"loop", "printSchema", "shape", "write"}

\* The run has reached sdf.write.parquet.
WriteReached ==
    \/ pc \in {"write", "stop", "done"}
    \/ pc = "failed" /\ error.at = "write"

\* The write job has run (to its end or to a failure).
WriteRun ==
    \/ pc \in {"stop", "done"}
    \/ pc = "failed" /\ error.at = "write"

RECURSIVE FoldedRows(_)
\* The rows of the first j standardized tables as one multiset, each table
\* counted once.
FoldedRows(j) ==
    IF j = 0 THEN EmptyBag ELSE FoldedRows(j - 1) (+) RowBag(Normalized(j))

====
